---- MODULE Spec2Model ----
(***************************************************************************)
(* Model of hub/core/chunk.py: class Chunk (a capacity-bounded payload     *)
(* buffer with a shape index, a byte-range index and a link to the next    *)
(* chunk) and its packing routine extend / _fill / _spawn_child_chunk /    *)
(* _update_headers.                                                        *)
(*                                                                         *)
(* Chunks are numbered in creation order; every per-chunk attribute is a   *)
(* sequence indexed by the chunk's number.  extend is recursive: the       *)
(* recursion is an explicit stack of frames and each statement of extend   *)
(* is one step on the top frame, so the states inside one call are states  *)
(* of the model.  Callers serialise their calls: a new top-level call      *)
(* starts only when the stack is empty.                                    *)
(***************************************************************************)
EXTENDS Integers, Sequences, FiniteSets, TLC

\* ---------------------------------------------------------------- bounds
\* Largest max_data_bytes the first chunk is constructed with.
MaxCapacity == 4
\* Longest incoming buffer handed to a top-level extend call.
MaxBufLen == 5
\* Largest num_samples handed to extend (the smallest is 0).
MaxSamples == 2
\* Most chunks that may exist; a call that could need more is not started.
MaxChunks == 4
\* Most header runs recorded over all chunks plus top-level calls made with the
\* leftover flag set on a chunk without successor; at that many, calls are started
\* on chunks that have a successor only.
MaxCalls == 2

\* ------------------------------------------------------------- the state
VARIABLES
    max_data_bytes,            \* chunk -> capacity ceiling
    min_data_bytes_target,     \* chunk -> soft fullness threshold
    data,                      \* chunk -> payload bytes
    index_shape_encoder,       \* chunk -> runs <<shape, count>>
    index_byte_range_encoder,  \* chunk -> runs <<bytes per sample, count>>
    next_chunk,                \* chunk -> successor chunk, or None
    stack,                     \* the running extend call: frames, innermost last
    call,                      \* arguments of the latest top-level call
    pre,                       \* the chunks as they were when that call began
    result,                    \* outcome of the latest top-level call
    leftover_calls,            \* top-level leftover calls made on a chunk without successor
    serialized,                \* the latest tobytes call: the chunk, what it held, the buffer
    deserialized               \* outcome of the latest frombuffer call

vars == <<max_data_bytes, min_data_bytes_target, data, index_shape_encoder,
          index_byte_range_encoder, next_chunk, stack, call, pre, result,
          leftover_calls, serialized, deserialized>>

io_vars == <<serialized, deserialized>>

chunk_vars == <<max_data_bytes, min_data_bytes_target, data, index_shape_encoder,
                index_byte_range_encoder, next_chunk>>

\* next_chunk of a chunk that has no successor.
None == 0

\* The chunks created so far.
Chunks == 1..Len(data)

\* The values max_data_bytes takes at construction of the first chunk.
Capacities == 1..MaxCapacity

\* Sample shapes handed to extend; <<>> is the shape of a scalar sample.
Shapes == {<<>>, <<2>>}

\* An incoming buffer of len bytes: consecutive byte values from first on.
MkBuffer(first, len) == [i \in 1..len |-> (first + i - 1) % 256]

\* First byte of the incoming buffers: the byte values wrap around inside a buffer.
FirstBytes == {254}

\* The sample counts handed to extend.
SampleCounts == 0..MaxSamples

\* The header runs recorded so far, over all chunks.
RECURSIVE TotalRuns(_)
TotalRuns(c) ==
    IF c = 0 THEN 0 ELSE Len(index_shape_encoder[c]) + TotalRuns(c - 1)

\* A snapshot of every chunk's attributes.
Snapshot ==
    [max_data_bytes |-> max_data_bytes,
     data |-> data,
     index_shape_encoder |-> index_shape_encoder,
     index_byte_range_encoder |-> index_byte_range_encoder,
     next_chunk |-> next_chunk]

NoCall ==
    [self |-> 1, incoming_buffer |-> <<>>, num_samples |-> 1,
     sample_shape |-> <<>>, leftover |-> FALSE]

\* -------------------------------------------------------- pure helpers
\* buffer[k:] of Python.
SliceFrom(buffer, k) == SubSeq(buffer, k + 1, Len(buffer))

\* buffer[:k] of Python.
SliceTo(buffer, k) == SubSeq(buffer, 1, k)

\* Chunk.num_data_bytes
num_data_bytes(c) == Len(data[c])

\* has_space with the comparison made inclusive.
has_space_inclusive(c) == num_data_bytes(c) <= min_data_bytes_target[c]

\* Chunk.has_space
has_space(c) == num_data_bytes(c) < min_data_bytes_target[c]

\* Chunk._min_chunks_required_for_num_bytes: ceil(num_bytes / max_data_bytes)
min_chunks_required_for_num_bytes(c, num_bytes) ==
    (num_bytes + max_data_bytes[c] - 1) \div max_data_bytes[c]

\* incoming_num_bytes_that_will_fit without the min against the remaining room.
incoming_num_bytes_that_will_fit_unclamped(c, incoming_num_bytes) ==
    incoming_num_bytes

\* _fill: incoming_num_bytes_that_will_fit
incoming_num_bytes_that_will_fit(c, incoming_num_bytes) ==
    IF incoming_num_bytes < max_data_bytes[c] - num_data_bytes(c)
    THEN incoming_num_bytes
    ELSE max_data_bytes[c] - num_data_bytes(c)

\* The test of _fill with the comparison inverted.
fill_chunk_counts_differ(c, incoming_num_bytes) ==
    min_chunks_required_for_num_bytes(c, incoming_num_bytes)
        # min_chunks_required_for_num_bytes(c, incoming_num_bytes + num_data_bytes(c))

\* _fill: the test that lets the chunk take bytes of the incoming buffer
fill_chunk_counts_match(c, incoming_num_bytes) ==
    min_chunks_required_for_num_bytes(c, incoming_num_bytes)
        = min_chunks_required_for_num_bytes(c, incoming_num_bytes + num_data_bytes(c))

\* _fill reporting the whole incoming buffer as processed.
fill_processed_num_bytes_all(c, incoming_num_bytes) == incoming_num_bytes

\* _fill: the byte count it returns to extend
fill_processed_num_bytes(c, incoming_num_bytes) ==
    incoming_num_bytes_that_will_fit(c, incoming_num_bytes)

\* _validate_incoming_buffer without its divisibility check.
validate_incoming_buffer_raises_on_count_only(incoming_num_bytes, num_samples) ==
    num_samples <= 0

\* _validate_incoming_buffer: TRUE when it raises
validate_incoming_buffer_raises(incoming_num_bytes, num_samples) ==
    \/ num_samples <= 0
    \/ (num_samples > 0 /\ incoming_num_bytes % num_samples # 0)

\* The opening checks of extend in the other order.
extend_preconditions_space_first(c) ==
    IF ~has_space(c) THEN "no_space"
    ELSE IF next_chunk[c] # None THEN "sealed"
    ELSE "pass"

\* The opening checks of extend without the sealed check.
extend_preconditions_space_only(c) ==
    IF ~has_space(c) THEN "no_space" ELSE "pass"

\* extend: the two checks it opens with, in their order
extend_preconditions(c) ==
    IF next_chunk[c] # None THEN "sealed"
    ELSE IF ~has_space(c) THEN "no_space"
    ELSE "pass"

\* extend with the leftover test inverted: headers on leftover calls only.
extend_updates_headers_inverted(leftover) == leftover

\* extend writing headers on every call, leftover or not.
extend_updates_headers_always(leftover) == TRUE

\* extend: headers are written unless the buffer is left over from the previous chunk
extend_updates_headers(leftover) == ~leftover

\* _spawn_child_chunk handing the child the room its parent has left.
spawn_child_chunk_remaining_bytes(c) == max_data_bytes[c] - num_data_bytes(c)

\* _spawn_child_chunk handing the child the soft threshold as its capacity.
spawn_child_chunk_half_max_data_bytes(c) == min_data_bytes_target[c]

\* _spawn_child_chunk: the capacity the child is constructed with
spawn_child_chunk_max_data_bytes(c) == max_data_bytes[c]

\* extend returning the child after the child's own children.
extend_return_tuple_child_last(child_chunk, child_chunk_children) ==
    child_chunk_children \o <<child_chunk>>

\* extend: the tuple it returns after the child's call
extend_return_tuple(child_chunk, child_chunk_children) ==
    <<child_chunk>> \o child_chunk_children

\* BytePositionsEncoder.num_samples: the sum of the run lengths
RECURSIVE SumRunLengths(_)
SumRunLengths(runs) ==
    IF runs = <<>> THEN 0 ELSE runs[1][2] + SumRunLengths(Tail(runs))

\* Chunk.num_samples
num_samples(c) == SumRunLengths(index_byte_range_encoder[c])

\* ------------------------------------------------------ serialization
\* No tobytes call has been made, or its buffer has been dropped.
NoBuffer == [chunk |-> None, source |-> <<>>, buffer |-> <<>>]

\* No frombuffer call has been made on the latest buffer.
NotLoaded == [status |-> "none", instance |-> <<>>]

\* Chunk.tobytes: np.savez of the two encoders and the payload, as named sections.
tobytes(c) ==
    << <<"index_shape_encoder", index_shape_encoder[c]>>,
       <<"index_byte_range_encoder", index_byte_range_encoder[c]>>,
       <<"data", data[c]>> >>

\* Cachable.frombuffer: an instance with the attributes the buffer's sections hold.
cachable_frombuffer(buffer) ==
    [index_shape_encoder |-> buffer[1][2],
     index_byte_range_encoder |-> buffer[2][2],
     data |-> buffer[3][2]]

\* Chunk.frombuffer: builds the instance, then raises NotImplementedError
\* before the return statement; the caller never receives the instance.
frombuffer(buffer) ==
    LET instance == cachable_frombuffer(buffer)
    IN [status |-> "NotImplementedError", instance |-> <<>>]

\* ------------------------------------------------------------- frames
Top == stack[Len(stack)]

SetTop(f) == [stack EXCEPT ![Len(stack)] = f]

Frame(c, buffer, n, shape, leftover) ==
    [self |-> c, incoming_buffer |-> buffer, num_samples |-> n,
     sample_shape |-> shape, leftover |-> leftover, pc |-> "check",
     processed_num_bytes |-> 0, child_chunk |-> None, ret |-> <<>>]

\* An exception leaves every frame of the call: nothing in chunk.py catches it.
Raise(kind) ==
    /\ stack' = <<>>
    /\ result' = [status |-> kind, returned |-> <<>>]
    /\ UNCHANGED <<chunk_vars, call, pre, leftover_calls, io_vars>>

\* --------------------------------------------------------------- Init
Init ==
    /\ max_data_bytes \in {<<m>> : m \in Capacities}
    /\ min_data_bytes_target = <<max_data_bytes[1] \div 2>>
    /\ data = <<<<>>>>
    /\ index_shape_encoder = <<<<>>>>
    /\ index_byte_range_encoder = <<<<>>>>
    /\ next_chunk = <<None>>
    /\ stack = <<>>
    /\ call = NoCall
    /\ pre = Snapshot
    /\ result = [status |-> "idle", returned |-> <<>>]
    /\ leftover_calls = 0
    /\ serialized = NoBuffer
    /\ deserialized = NotLoaded

\* ------------------------------------------------------------ actions
\* A caller invokes c.extend(buffer, n, shape, leftover).
Call(c, buffer, n, shape, leftover) ==
    /\ stack = <<>>
    /\ result.status = "idle"
    /\ next_chunk[c] # None \/ TotalRuns(Len(data)) + leftover_calls < MaxCalls
    /\ leftover_calls' = IF leftover /\ next_chunk[c] = None
                         THEN leftover_calls + 1 ELSE leftover_calls
    /\ Len(data) + (Len(buffer) + max_data_bytes[c] - 1) \div max_data_bytes[c]
           <= MaxChunks
    /\ stack' = <<Frame(c, buffer, n, shape, leftover)>>
    /\ call' = [self |-> c, incoming_buffer |-> buffer, num_samples |-> n,
                sample_shape |-> shape, leftover |-> leftover]
    /\ pre' = Snapshot
    /\ result' = [status |-> "running", returned |-> <<>>]
    /\ UNCHANGED <<chunk_vars, io_vars>>

\* extend, lines 51-59: the sealed check, then the space check.
CheckPreconditions ==
    /\ stack # <<>>
    /\ Top.pc = "check"
    /\ LET outcome == extend_preconditions(Top.self) IN
       IF outcome # "pass"
       THEN Raise(outcome)
       ELSE /\ stack' = SetTop([Top EXCEPT !.pc =
                           IF extend_updates_headers(Top.leftover)
                           THEN "validate" ELSE "fill"])
            /\ UNCHANGED <<chunk_vars, call, pre, result, leftover_calls, io_vars>>

\* _update_headers, line 126: _validate_incoming_buffer.
ValidateIncomingBuffer ==
    /\ stack # <<>>
    /\ Top.pc = "validate"
    /\ IF validate_incoming_buffer_raises(Len(Top.incoming_buffer), Top.num_samples)
       THEN Raise("invalid_batch")
       ELSE /\ stack' = SetTop([Top EXCEPT !.pc = "add_shape"])
            /\ UNCHANGED <<chunk_vars, call, pre, result, leftover_calls, io_vars>>

\* ShapeEncoder.add_shape(sample_shape, num_samples), line 129.
AddShape ==
    /\ stack # <<>>
    /\ Top.pc = "add_shape"
    /\ IF Top.num_samples <= 0 \/ Top.sample_shape = <<>>
       THEN Raise("invalid_run")
       ELSE /\ index_shape_encoder' =
                  [index_shape_encoder EXCEPT ![Top.self] =
                      Append(@, <<Top.sample_shape, Top.num_samples>>)]
            /\ stack' = SetTop([Top EXCEPT !.pc = "add_byte_position"])
            /\ UNCHANGED <<max_data_bytes, min_data_bytes_target, data,
                           index_byte_range_encoder, next_chunk, call, pre, result, leftover_calls, io_vars>>

\* BytePositionsEncoder.add_byte_position(num_bytes_per_sample, num_samples),
\* lines 128 and 130-132.
AddBytePosition ==
    /\ stack # <<>>
    /\ Top.pc = "add_byte_position"
    /\ IF Top.num_samples <= 0
       THEN Raise("invalid_run")
       ELSE /\ index_byte_range_encoder' =
                  [index_byte_range_encoder EXCEPT ![Top.self] =
                      Append(@, <<Len(Top.incoming_buffer) \div Top.num_samples,
                                  Top.num_samples>>)]
            /\ stack' = SetTop([Top EXCEPT !.pc = "fill"])
            /\ UNCHANGED <<max_data_bytes, min_data_bytes_target, data,
                           index_shape_encoder, next_chunk, call, pre, result, leftover_calls, io_vars>>

\* _fill assigning the bytes that fit to data instead of appending them.
FillOverwriting ==
    /\ stack # <<>>
    /\ Top.pc = "fill"
    /\ LET c == Top.self
           incoming_num_bytes == Len(Top.incoming_buffer)
       IN /\ data' = [data EXCEPT ![c] =
                 IF fill_chunk_counts_match(c, incoming_num_bytes)
                 THEN SliceTo(Top.incoming_buffer,
                              incoming_num_bytes_that_will_fit(c, incoming_num_bytes))
                 ELSE @]
          /\ stack' = SetTop([Top EXCEPT
                 !.processed_num_bytes = fill_processed_num_bytes(c, incoming_num_bytes),
                 !.pc = "branch"])
    /\ UNCHANGED <<max_data_bytes, min_data_bytes_target, index_shape_encoder,
                   index_byte_range_encoder, next_chunk, call, pre, result, leftover_calls, io_vars>>

\* extend, line 67: processed_num_bytes = self._fill(incoming_buffer).
Fill ==
    /\ stack # <<>>
    /\ Top.pc = "fill"
    /\ LET c == Top.self
           incoming_num_bytes == Len(Top.incoming_buffer)
       IN /\ data' = [data EXCEPT ![c] =
                 IF fill_chunk_counts_match(c, incoming_num_bytes)
                 THEN @ \o SliceTo(Top.incoming_buffer,
                                   incoming_num_bytes_that_will_fit(c, incoming_num_bytes))
                 ELSE @]
          /\ stack' = SetTop([Top EXCEPT
                 !.processed_num_bytes = fill_processed_num_bytes(c, incoming_num_bytes),
                 !.pc = "branch"])
    /\ UNCHANGED <<max_data_bytes, min_data_bytes_target, index_shape_encoder,
                   index_byte_range_encoder, next_chunk, call, pre, result, leftover_calls, io_vars>>

\* extend, lines 69-71: the chunk stored all incoming bytes.
ReturnEmpty ==
    /\ stack # <<>>
    /\ Top.pc = "branch"
    /\ Top.processed_num_bytes >= Len(Top.incoming_buffer)
    /\ stack' = SetTop([Top EXCEPT !.pc = "return", !.ret = <<>>])
    /\ UNCHANGED <<chunk_vars, call, pre, result, leftover_calls, io_vars>>

\* extend, lines 73-81: spawn the child and call its extend with the rest.
SpawnChild ==
    /\ stack # <<>>
    /\ Top.pc = "branch"
    /\ Top.processed_num_bytes < Len(Top.incoming_buffer)
    /\ LET c == Top.self
           child == Len(data) + 1
           forwarding_buffer == SliceFrom(Top.incoming_buffer, Top.processed_num_bytes)
       IN IF next_chunk[c] # None
          THEN Raise("already_spawned")
          ELSE /\ max_data_bytes' =
                     Append(max_data_bytes, spawn_child_chunk_max_data_bytes(c))
               /\ min_data_bytes_target' =
                     Append(min_data_bytes_target,
                            spawn_child_chunk_max_data_bytes(c) \div 2)
               /\ data' = Append(data, <<>>)
               /\ index_shape_encoder' = Append(index_shape_encoder, <<>>)
               /\ index_byte_range_encoder' = Append(index_byte_range_encoder, <<>>)
               /\ next_chunk' = Append([next_chunk EXCEPT ![c] = child], None)
               /\ stack' = Append(SetTop([Top EXCEPT !.pc = "wait", !.child_chunk = child]),
                                  Frame(child, forwarding_buffer, Top.num_samples,
                                        Top.sample_shape, TRUE))
               /\ UNCHANGED <<call, pre, result, leftover_calls, io_vars>>

\* extend, lines 71 and 83: the innermost call returns its tuple to its caller.
Return ==
    /\ stack # <<>>
    /\ Top.pc = "return"
    /\ IF Len(stack) = 1
       THEN /\ stack' = <<>>
            /\ result' = [status |-> "ok", returned |-> Top.ret]
       ELSE /\ LET caller == stack[Len(stack) - 1] IN
               stack' = [SubSeq(stack, 1, Len(stack) - 1) EXCEPT ![Len(stack) - 1] =
                            [caller EXCEPT !.pc = "return",
                                           !.ret = extend_return_tuple(caller.child_chunk,
                                                                       Top.ret)]]
            /\ UNCHANGED result
    /\ UNCHANGED <<chunk_vars, call, pre, leftover_calls, io_vars>>

\* The caller takes the returned tuple, or the exception, and goes on.
CallerContinues ==
    /\ stack = <<>>
    /\ result.status \notin {"idle", "running"}
    /\ call' = NoCall
    /\ pre' = Snapshot
    /\ result' = [status |-> "idle", returned |-> <<>>]
    /\ UNCHANGED <<chunk_vars, stack, leftover_calls, io_vars>>

\* A caller serializes chunk c: c.tobytes().
ToBytes(c) ==
    /\ stack = <<>>
    /\ result.status = "idle"
    /\ serialized = NoBuffer
    /\ serialized' = [chunk |-> c,
                      source |-> [index_shape_encoder |-> index_shape_encoder[c],
                                  index_byte_range_encoder |-> index_byte_range_encoder[c],
                                  data |-> data[c]],
                      buffer |-> tobytes(c)]
    /\ UNCHANGED <<chunk_vars, stack, call, pre, result, leftover_calls, deserialized>>

\* A caller hands the serialized buffer to Chunk.frombuffer.
FromBuffer ==
    /\ serialized # NoBuffer
    /\ deserialized = NotLoaded
    /\ stack = <<>>
    /\ result.status = "idle"
    /\ deserialized' = frombuffer(serialized.buffer)
    /\ UNCHANGED <<chunk_vars, stack, call, pre, result, leftover_calls, serialized>>

\* The caller drops the buffer and the outcome of frombuffer.
DropBuffer ==
    /\ deserialized # NotLoaded
    /\ serialized' = NoBuffer
    /\ deserialized' = NotLoaded
    /\ UNCHANGED <<chunk_vars, stack, call, pre, result, leftover_calls>>

\* A caller starts a new batch on some chunk.
BatchCall ==
    \E c \in Chunks, first \in FirstBytes, len \in 0..MaxBufLen,
       n \in SampleCounts, shape \in Shapes :
       Call(c, MkBuffer(first, len), n, shape, FALSE)

\* A caller passes _leftover_buffer_from_previous_chunk = True itself.
LeftoverCall ==
    \E c \in Chunks, first \in FirstBytes, len \in 0..MaxBufLen,
       n \in SampleCounts, shape \in Shapes :
       Call(c, MkBuffer(first, len), n, shape, TRUE)

\* The statements of a running extend call, and the caller taking its outcome.
Step ==
    \/ CheckPreconditions
    \/ ValidateIncomingBuffer
    \/ AddShape
    \/ AddBytePosition
    \/ Fill
    \/ ReturnEmpty
    \/ SpawnChild
    \/ Return
    \/ CallerContinues

Next == BatchCall \/ LeftoverCall \/ Step

Spec == Init /\ [][Next]_vars

\* Callers that only start batches: the leftover flag is set by extend alone.
NextBatches == BatchCall \/ Step

SpecBatches == Init /\ [][NextBatches]_vars

\* A running extend executes its next statement: the interpreter does not stop
\* inside a call, and the caller takes the outcome.
SpecFair == SpecBatches /\ WF_vars(Step)

\* Callers that start batches and, between calls, serialize a chunk and load it back.
NextRoundTrip ==
    \/ BatchCall
    \/ Step
    \/ \E c \in Chunks : ToBytes(c)
    \/ FromBuffer
    \/ DropBuffer

SpecRoundTrip == Init /\ [][NextRoundTrip]_vars

\* ------------------------------------------------- vocabulary of the claims
\* The outcomes with which extend raises.
Errors == {"sealed", "no_space", "invalid_batch", "invalid_run", "already_spawned"}

\* The latest top-level call has ended and its outcome is still with the caller.
Finished == stack = <<>> /\ result.status \notin {"idle", "running"}

\* The latest top-level call returned normally.
Succeeded == stack = <<>> /\ result.status = "ok"

\* A top-level call has been made and its outcome is not yet dropped.
Called == result.status # "idle"

\* The data of the chunks cs, concatenated in the order of cs.
RECURSIVE ConcatData(_)
ConcatData(cs) ==
    IF cs = <<>> THEN <<>> ELSE data[cs[1]] \o ConcatData(Tail(cs))

\* What the latest call added to the data of the chunk it was made on.
AppendedToSelf ==
    SubSeq(data[call.self], Len(pre.data[call.self]) + 1, Len(data[call.self]))

\* ceil(n / m), from its definition: the least k with k * m >= n.
CeilDiv(n, m) == CHOOSE k \in 0..n : k * m >= n /\ \A j \in 0..(k - 1) : j * m < n

\* The called chunk had no successor when the latest call began.
WasUnsealed == pre.next_chunk[call.self] = None

\* has_space of the called chunk when the latest call began.
HadSpace == Len(pre.data[call.self]) < pre.max_data_bytes[call.self] \div 2

\* The batch of the latest call is one _validate_incoming_buffer must reject.
BatchIsInvalid ==
    \/ call.num_samples <= 0
    \/ \A k \in 0..Len(call.incoming_buffer) :
           k * call.num_samples # Len(call.incoming_buffer)

\* The two chunk counts _fill compares differed when the latest call began.
ChunkCountsDiffered ==
    LET m == pre.max_data_bytes[call.self]
        d == Len(pre.data[call.self])
        n == Len(call.incoming_buffer)
    IN CeilDiv(n, m) # CeilDiv(n + d, m)

\* ----------------------------------------------------------------- claims
\* C1 (No data loss): after a successful non-continuation extend, the bytes the
\* call appended to the called chunk's data, followed by the data of every
\* returned chunk in returned order, equal the incoming buffer exactly.
NoDataLoss ==
    (Succeeded /\ ~call.leftover)
        => AppendedToSelf \o ConcatData(result.returned) = call.incoming_buffer

\* C2 (Capacity invariant): in every state, also inside a running extend, every
\* chunk's data is no longer than its max_data_bytes.
CapacityInvariant ==
    \A c \in Chunks : Len(data[c]) <= max_data_bytes[c]

\* C2 witness: a chunk filled to its capacity has spilled into its child.
FullChunkWithChild ==
    \E c \in Chunks :
        /\ Len(data[c]) = max_data_bytes[c]
        /\ next_chunk[c] # None
        /\ data[next_chunk[c]] # <<>>

\* C3 (Fragmentation avoidance on mismatch): a successful non-continuation extend
\* with a non-empty buffer whose two chunk counts differ leaves the called chunk's
\* data unchanged, and the returned chunks together hold the whole buffer.
MismatchForwardsWholeBuffer ==
    (Succeeded /\ ~call.leftover /\ call.incoming_buffer # <<>> /\ ChunkCountsDiffered)
        => /\ data[call.self] = pre.data[call.self]
           /\ ConcatData(result.returned) = call.incoming_buffer

\* C4 (Seal invariant): every extend call on a chunk that has a successor,
\* continuation or not, whatever its arguments, ends with the sealed-chunk error,
\* and while it runs it gets no further than the opening checks.
SealInvariant ==
    (Called /\ ~WasUnsealed)
        => /\ result.status \in {"running", "sealed"}
           /\ stack = <<>> => result.status = "sealed"
           /\ stack # <<>> => (Len(stack) = 1 /\ stack[1].pc = "check")

\* C4 witness: a continuation call with an invalid batch on a sealed chunk that
\* has no space was refused as sealed.
SealedTakesPrecedence ==
    /\ Finished
    /\ result.status = "sealed"
    /\ call.leftover
    /\ ~HadSpace
    /\ BatchIsInvalid

\* C5 (Soft-threshold gating): a non-continuation extend on a chunk with no
\* successor whose data is at least max_data_bytes // 2 long ends with the
\* no-space error, whatever the buffer and the sample count.
SoftThresholdGating ==
    (Finished /\ ~call.leftover /\ WasUnsealed /\ ~HadSpace)
        => result.status = "no_space"

\* C5 witness: a valid batch that fits in the remaining room was refused.
FittingBatchRefused ==
    /\ Finished
    /\ result.status = "no_space"
    /\ ~call.leftover
    /\ ~BatchIsInvalid
    /\ call.incoming_buffer # <<>>
    /\ pre.data[call.self] # <<>>
    /\ Len(pre.data[call.self]) + Len(call.incoming_buffer)
           <= pre.max_data_bytes[call.self]

\* C6 (Invalid batch rejection): a non-continuation extend on an unsealed chunk
\* with space and an invalid batch ends with the invalid-batch error, and no run
\* and no payload byte is written at any point of the call.
InvalidBatchRejected ==
    (Called /\ ~call.leftover /\ WasUnsealed /\ HadSpace /\ BatchIsInvalid)
        => /\ result.status \in {"running", "invalid_batch"}
           /\ stack = <<>> => result.status = "invalid_batch"
           /\ Snapshot = pre

\* C6 witness: a buffer of 3 bytes for 2 samples was rejected.
IndivisibleBatchRejected ==
    /\ Finished
    /\ result.status = "invalid_batch"
    /\ call.num_samples = 2
    /\ Len(call.incoming_buffer) = 3

\* C7 (Failure atomicity): a failed extend call leaves every chunk's data, both
\* indexes and next link as they were before the call, and spawns no chunk.
FailureAtomicity ==
    (Finished /\ result.status \in Errors) => Snapshot = pre

\* C7 witness: a call failed on a chain of several chunks that holds data and runs.
FailedOnGrownChain ==
    /\ Finished
    /\ result.status \in Errors
    /\ Len(data) > 1
    /\ data[call.self] # <<>>
    /\ index_shape_encoder[1] # <<>>

\* C8 (Append-only chain): once a chunk's next link is set, no step changes that
\* link, the chunk's data or either of its indexes.
AppendOnlyChain ==
    [][\A c \in Chunks :
          next_chunk[c] # None
              => /\ next_chunk'[c] = next_chunk[c]
                 /\ data'[c] = data[c]
                 /\ index_shape_encoder'[c] = index_shape_encoder[c]
                 /\ index_byte_range_encoder'[c] = index_byte_range_encoder[c]]_vars

\* C8 witness: after the first chunk got its successor, a later call stored bytes
\* and a run further down the chain.
ChainGrewPastSealedChunk ==
    /\ Succeeded
    /\ pre.next_chunk[1] # None
    /\ ~call.leftover
    /\ call.incoming_buffer # <<>>

\* C9 (Returned chain order): the chunks c1..ck a successful extend returns are
\* linked called chunk -> c1 -> ... -> ck, ck has no next, and they are pairwise
\* distinct chunks created by the call; an empty tuple leaves next unset.
ReturnedChainOrder ==
    Succeeded =>
        LET r == result.returned
            k == Len(result.returned)
        IN /\ k = 0 => next_chunk[call.self] = None
           /\ k > 0 => /\ next_chunk[call.self] = r[1]
                       /\ \A i \in 1..(k - 1) : next_chunk[r[i]] = r[i + 1]
                       /\ next_chunk[r[k]] = None
                       /\ \A i, j \in 1..k : i # j => r[i] # r[j]
                       /\ \A i \in 1..k : r[i] \in Chunks /\ r[i] > Len(pre.data)

\* C9 witness: a call returned at least two chunks.
ReturnedTwoChunks ==
    Succeeded /\ Len(result.returned) >= 2

\* C10 (Headers only on the originating chunk): a successful non-continuation
\* extend(buffer, n, shape) appends exactly the run (shape, n) to the called
\* chunk's shape index and exactly the run (len(buffer)/n, n) to its byte-range
\* index, its num_samples grows by n, and every returned chunk has empty indexes.
HeadersOnlyOnOrigin ==
    (Succeeded /\ ~call.leftover) =>
        LET c == call.self
            n == call.num_samples
        IN /\ index_shape_encoder[c]
                  = Append(pre.index_shape_encoder[c], <<call.sample_shape, n>>)
           /\ Len(index_byte_range_encoder[c])
                  = Len(pre.index_byte_range_encoder[c]) + 1
           /\ SubSeq(index_byte_range_encoder[c], 1, Len(pre.index_byte_range_encoder[c]))
                  = pre.index_byte_range_encoder[c]
           /\ LET run == index_byte_range_encoder[c][Len(index_byte_range_encoder[c])]
              IN run[2] = n /\ run[1] * n = Len(call.incoming_buffer)
           /\ num_samples(c) = SumRunLengths(pre.index_byte_range_encoder[c]) + n
           /\ \A i \in 1..Len(result.returned) :
                  /\ index_shape_encoder[result.returned[i]] = <<>>
                  /\ index_byte_range_encoder[result.returned[i]] = <<>>
                  /\ num_samples(result.returned[i]) = 0

\* C10 witness: a batch of two samples, recorded on a chunk that already had a
\* run, spilled into a spawned chunk.
BatchSpilledIntoChild ==
    /\ Succeeded
    /\ ~call.leftover
    /\ call.num_samples = 2
    /\ pre.index_shape_encoder[call.self] # <<>>
    /\ result.returned # <<>>

\* C11 (Serialization round trip): frombuffer(tobytes(chunk)) returns a chunk
\* whose shape index, byte-range index and payload equal those serialized; the
\* next link is no part of the buffer.
SerializationRoundTrip ==
    deserialized # NotLoaded
        => /\ deserialized.status = "ok"
           /\ deserialized.instance = serialized.source
           /\ \A i \in 1..Len(serialized.buffer) :
                  serialized.buffer[i][1] # "next_chunk"

\* C12 (Processed equals copied): in every call of _fill, the byte count it
\* returns equals the number of bytes by which the chunk's data grew.
ProcessedEqualsCopied ==
    [][(stack # <<>> /\ Top.pc = "fill")
          => stack'[Len(stack)].processed_num_bytes
                 = Len(data'[Top.self]) - Len(data[Top.self])]_vars

\* C13 (Header before payload): within a non-continuation extend, as soon as
\* any chunk's data or next link differs from what it was when the call began,
\* both runs of the batch are recorded on the called chunk.
HeaderBeforePayload ==
    (Called /\ ~call.leftover /\ (data # pre.data \/ next_chunk # pre.next_chunk))
        => /\ index_shape_encoder[call.self]
                  = Append(pre.index_shape_encoder[call.self],
                           <<call.sample_shape, call.num_samples>>)
           /\ Len(index_byte_range_encoder[call.self])
                  = Len(pre.index_byte_range_encoder[call.self]) + 1

\* C13 witness: inside a call with a non-empty buffer both indexes hold the
\* batch's run while no payload byte has been stored and no chunk spawned.
IndexAheadOfPayload ==
    /\ Len(stack) = 1
    /\ Top.pc = "fill"
    /\ ~call.leftover
    /\ call.incoming_buffer # <<>>
    /\ data = pre.data
    /\ next_chunk = pre.next_chunk
    /\ Len(index_shape_encoder[call.self])
           = Len(pre.index_shape_encoder[call.self]) + 1
    /\ Len(index_byte_range_encoder[call.self])
           = Len(pre.index_byte_range_encoder[call.self]) + 1

\* C14 (Chunk count): a successful non-continuation extend with a non-empty
\* buffer on a chunk holding d bytes returns ceil((d + len) / max) - 1 chunks;
\* when the two chunk counts agree, the called chunk and the returned chunks
\* number ceil(len / max); when d + len <= max, no chunk is returned.
ChunkCount ==
    (Succeeded /\ ~call.leftover /\ call.incoming_buffer # <<>>) =>
        LET m == pre.max_data_bytes[call.self]
            d == Len(pre.data[call.self])
            n == Len(call.incoming_buffer)
            k == Len(result.returned)
        IN /\ k = CeilDiv(d + n, m) - 1
           /\ ~ChunkCountsDiffered => 1 + k = CeilDiv(n, m)
           /\ d + n <= m => k = 0

\* C14 witness: a call on a chunk that already held bytes returned chunks.
OccupiedChunkSpawned ==
    /\ Succeeded
    /\ ~call.leftover
    /\ pre.data[call.self] # <<>>
    /\ ~ChunkCountsDiffered
    /\ result.returned # <<>>

\* C15 (Capacity inherited and fixed): every chunk's successor has the chunk's
\* max_data_bytes, every chunk's min_data_bytes_target is its max_data_bytes // 2,
\* and no step changes the max_data_bytes or the target of an existing chunk.
CapacityInheritedAndFixed ==
    /\ [](\A c \in Chunks :
             /\ min_data_bytes_target[c] = max_data_bytes[c] \div 2
             /\ next_chunk[c] # None
                    => max_data_bytes[next_chunk[c]] = max_data_bytes[c])
    /\ [][\A c \in Chunks :
             /\ max_data_bytes'[c] = max_data_bytes[c]
             /\ min_data_bytes_target'[c] = min_data_bytes_target[c]]_vars

\* C15 witness: a chain of three chunks with a capacity of at least 3.
ChainOfThree ==
    /\ stack = <<>>
    /\ Len(data) >= 3
    /\ next_chunk[1] # None
    /\ next_chunk[next_chunk[1]] # None
    /\ max_data_bytes[1] >= 3

\* C16 (Shape of the spawned chain): in the tuple a successful extend returns,
\* every chunk but the last holds exactly max_data_bytes bytes and the last
\* holds between 1 and max_data_bytes bytes.
SpawnedChainShape ==
    Succeeded =>
        LET r == result.returned
            k == Len(result.returned)
        IN /\ \A i \in 1..(k - 1) : Len(data[r[i]]) = max_data_bytes[r[i]]
           /\ k > 0 => /\ Len(data[r[k]]) >= 1
                       /\ Len(data[r[k]]) <= max_data_bytes[r[k]]

\* C16 witness: a call returned a full chunk followed by a partly filled one.
FullThenPartial ==
    /\ Succeeded
    /\ Len(result.returned) = 2
    /\ Len(data[result.returned[1]]) = max_data_bytes[result.returned[1]]
    /\ Len(data[result.returned[2]]) < max_data_bytes[result.returned[2]]

\* The bytes the runs of one byte-range index account for.
RECURSIVE IndexedBytes(_)
IndexedBytes(runs) ==
    IF runs = <<>> THEN 0 ELSE runs[1][1] * runs[1][2] + IndexedBytes(Tail(runs))

\* The bytes indexed on the chunks 1..k, and the bytes stored in them.
RECURSIVE IndexedBytesUpTo(_)
IndexedBytesUpTo(k) ==
    IF k = 0 THEN 0
    ELSE IndexedBytes(index_byte_range_encoder[k]) + IndexedBytesUpTo(k - 1)

RECURSIVE StoredBytesUpTo(_)
StoredBytesUpTo(k) ==
    IF k = 0 THEN 0 ELSE Len(data[k]) + StoredBytesUpTo(k - 1)

\* C17 (Chain-wide accounting): between calls, on a chain grown from one empty
\* chunk by non-continuation extend calls, the sum of len(data) over all chunks
\* equals the sum of run_length x bytes_per_sample over every byte-range run
\* recorded on them.
ChainAccounting ==
    stack = <<>> => StoredBytesUpTo(Len(data)) = IndexedBytesUpTo(Len(data))

\* C18 (Payload append-only, has_space monotone): in every step each chunk's
\* data is a prefix of its data afterwards, and a chunk whose has_space is false
\* has has_space false afterwards.
PayloadAppendOnly ==
    [][\A c \in 1..Len(data) :
           /\ Len(data'[c]) >= Len(data[c])
           /\ SubSeq(data'[c], 1, Len(data[c])) = data[c]
           /\ ~(Len(data[c]) < max_data_bytes[c] \div 2)
                  => ~(Len(data'[c]) < max_data_bytes'[c] \div 2)]_vars

\* C18 witness: a call grew a chunk that held bytes past its soft threshold.
GrownPastThreshold ==
    /\ Succeeded
    /\ HadSpace
    /\ pre.data[call.self] # <<>>
    /\ Len(data[call.self]) > Len(pre.data[call.self])
    /\ ~(Len(data[call.self]) < max_data_bytes[call.self] \div 2)

\* The latest call started a batch on an unsealed chunk with space, with
\* num_samples >= 1 dividing the buffer length and max_data_bytes >= 2.
ValidBatchCall ==
    /\ Called
    /\ ~call.leftover
    /\ WasUnsealed
    /\ HadSpace
    /\ ~BatchIsInvalid
    /\ pre.max_data_bytes[call.self] >= 2

\* Every continuation frame runs on the chunk its caller spawned, a chunk that
\* did not exist when the call began and is empty and unsealed when the frame
\* starts, with a buffer strictly shorter than its caller's.
ContinuationsShrink ==
    \A i \in 2..Len(stack) :
        /\ stack[i].leftover
        /\ stack[i].self = next_chunk[stack[i - 1].self]
        /\ stack[i].self > Len(pre.data)
        /\ Len(stack[i].incoming_buffer) < Len(stack[i - 1].incoming_buffer)
        /\ stack[i].pc = "check"
               => data[stack[i].self] = <<>> /\ next_chunk[stack[i].self] = None

\* C19 as stated (Termination and success): for max_data_bytes >= 2, a finished
\* non-continuation extend on a chunk with no successor, has_space true and
\* num_samples >= 1 dividing len(buffer) has returned normally.
ValidBatchReturnsNormally ==
    (Finished /\ ValidBatchCall) => result.status = "ok"

\* C19 amended (Termination and success): for max_data_bytes >= 2, every
\* non-continuation extend on a chunk with no successor, has_space true,
\* num_samples >= 1 dividing len(buffer) and a non-empty sample_shape eventually
\* returns normally: it never raises, and each continuation call is made on a
\* fresh empty child with a buffer strictly shorter than its caller's.
TerminationAndSuccess ==
    /\ []((ValidBatchCall /\ call.sample_shape # <<>>)
             => /\ result.status \in {"running", "ok"}
                /\ ContinuationsShrink)
    /\ (ValidBatchCall /\ call.sample_shape # <<>> /\ result.status = "running")
           ~> (ValidBatchCall /\ call.sample_shape # <<>> /\ Succeeded)

\* C19 witness: a valid batch with a shape returned after two recursive calls.
ValidCallSpawnedChain ==
    /\ ValidBatchCall
    /\ call.sample_shape # <<>>
    /\ Succeeded
    /\ Len(result.returned) >= 2

====
